---- MODULE Spec2Model ----
(***************************************************************************)
(* Model of map_generator.py: ingestion of the partitioned reference       *)
(* tables (load_data) and the radius / threshold / join query              *)
(* (create_map_html).                                                      *)
(*                                                                         *)
(* Conventions                                                             *)
(*  - A float is a record [k, v]: k = "num" (finite, value v), "inf"       *)
(*    (numpy's +inf) or "nan".  Comparisons follow IEEE-754.               *)
(*  - A raw semicolon-separated cell is [na, toks]: na says pandas read    *)
(*    the cell as NaN, toks are the pieces x.split(';') yields.            *)
(*  - A raw matrice cell is [kind, items]: what json.loads makes of it.    *)
(*  - Latitudes are micro-radians on one meridian, where the haversine     *)
(*    formula reduces to R * |dLat|; distances are millimetres.            *)
(*  - A DataFrame is a sequence of [index, row]: position and label.       *)
(***************************************************************************)
EXTENDS Integers, Sequences, FiniteSets, TLC

\* ---------------------------------------------------------------- bounds
MaxRows == 2

MaxParts == 2

MaxDens == 60

\* ------------------------------------------------------------- constants
EarthRadius == 6371

\* ---------------------------------------------------------------- floats
Num(n) == [k |-> "num", v |-> n]

Inf == [k |-> "inf", v |-> 0]

NaN == [k |-> "nan", v |-> 0]

\* a < b on floats
FloatLT(a, b) ==
    IF a.k = "nan" \/ b.k = "nan" THEN FALSE
    ELSE IF a.k = "inf" THEN FALSE
    ELSE IF b.k = "inf" THEN TRUE
    ELSE a.v < b.v

\* a >= b on floats
FloatGE(a, b) ==
    IF a.k = "nan" \/ b.k = "nan" THEN FALSE
    ELSE IF a.k = "inf" THEN TRUE
    ELSE IF b.k = "inf" THEN FALSE
    ELSE a.v >= b.v

\* Python's min(list) on a non-empty list: keep the first, replace on x < m
RECURSIVE PyMinFrom(_, _)
PyMinFrom(m, rest) ==
    IF rest = <<>> THEN m
    ELSE PyMinFrom(IF FloatLT(Head(rest), m) THEN Head(rest) ELSE m, Tail(rest))

PyMin(list) == PyMinFrom(Head(list), Tail(list))

\* pandas Series.min(): NaN entries are skipped; NaN when nothing is left
PandasMin(list) ==
    LET kept == SelectSeq(list, LAMBDA x : x.k # "nan")
    IN  IF kept = <<>> THEN NaN ELSE PyMin(kept)

\* ------------------------------------------------------- matrice (JSON)
\* the value of an entry's CONSO key
ConsoNum(n) == [k |-> "num", v |-> n]

ConsoAbsent == [k |-> "absent", v |-> 0]

ConsoNaN == [k |-> "nan", v |-> 0]

ConsoStr == [k |-> "str", v |-> 0]

\* a JSON object with the given CONSO, and a JSON value that is no object
Obj(c) == [obj |-> TRUE, conso |-> c]

NonObj == [obj |-> FALSE, conso |-> ConsoAbsent]

MatNA == [kind |-> "na", items |-> <<>>]

MatInvalid == [kind |-> "invalid", items |-> <<>>]

MatScalar == [kind |-> "scalar", items |-> <<>>]

MatDict(e) == [kind |-> "dict", items |-> <<e>>]

MatList(es) == [kind |-> "list", items |-> es]

parse_matrice(matrice_str) ==
    CASE matrice_str.kind = "na" -> <<>>
      [] matrice_str.kind = "dict" -> <<matrice_str.items[1]>>
      [] matrice_str.kind = "list" -> matrice_str.items
      [] OTHER -> <<>>

\* float(entry.get("CONSO", 0)) raises for a non-object entry (no .get)
\* and for a CONSO that is no number
EntryConsoRaises(entry) == ~entry.obj \/ entry.conso.k = "str"

\* mutant: an entry without a CONSO field is left out of the minimum
EntryConso_absent_inf(entry) ==
    CASE entry.conso.k = "absent" -> Inf
      [] entry.conso.k = "nan" -> NaN
      [] OTHER -> Num(entry.conso.v)

EntryConso(entry) ==
    CASE entry.conso.k = "absent" -> Num(0)
      [] entry.conso.k = "nan" -> NaN
      [] OTHER -> Num(entry.conso.v)

extract_min_consumption_raises(matrice_str) ==
    \E i \in DOMAIN parse_matrice(matrice_str) :
        EntryConsoRaises(parse_matrice(matrice_str)[i])

\* mutant: an empty matrix yields 0 instead of +inf
extract_min_consumption_zero(matrice_str) ==
    LET mat == parse_matrice(matrice_str)
        conso_list == [i \in DOMAIN mat |-> EntryConso(mat[i])]
    IN  IF conso_list # <<>> THEN PyMin(conso_list) ELSE Num(0)

extract_min_consumption(matrice_str) ==
    LET mat == parse_matrice(matrice_str)
        conso_list == [i \in DOMAIN mat |-> EntryConso(mat[i])]
    IN  IF conso_list # <<>> THEN PyMin(conso_list) ELSE Inf

\* ------------------------------------------- semicolon-separated cells
CellNA == [na |-> TRUE, toks |-> <<>>]

Cell(toks) == [na |-> FALSE, toks |-> toks]

\* int(num.strip())
IsIntTok(tok) == tok \in {"1", "2", "3"}

IntTok(tok) == CASE tok = "1" -> 1 [] tok = "2" -> 2 [] OTHER -> 3

\* float(num.strip()), in tenths of a kilometre
IsFloatTok(tok) == tok \in {"0.5", "1.2", "2.0"}

FloatTok(tok) == CASE tok = "0.5" -> 5 [] tok = "1.2" -> 12 [] OTHER -> 20

ParseLineNumbersRaises(x) ==
    ~x.na /\ \E i \in DOMAIN x.toks : ~IsIntTok(x.toks[i])

ParseLineNumbers(x) ==
    IF ~x.na THEN [i \in DOMAIN x.toks |-> IntTok(x.toks[i])] ELSE <<>>

ParseDistancesRaises(x) ==
    ~x.na /\ \E i \in DOMAIN x.toks : ~IsFloatTok(x.toks[i])

ParseDistances(x) ==
    IF ~x.na THEN [i \in DOMAIN x.toks |-> FloatTok(x.toks[i])] ELSE <<>>

\* ------------------------------------------------------------ DataFrames
RECURSIVE Flatten(_)
Flatten(list) ==
    IF list = <<>> THEN <<>> ELSE Head(list) \o Flatten(Tail(list))

\* pd.read_csv of one partition: rows labelled 0..n-1
read_csv(part) == [i \in DOMAIN part.rows |-> [index |-> i - 1, row |-> part.rows[i]]]

\* mutant: the first partition whose read raises ends the loop
RECURSIVE ReadParts_abort(_, _)
ReadParts_abort(parts, order) ==
    IF order = <<>> \/ ~parts[Head(order)].ok THEN <<>>
    ELSE <<read_csv(parts[Head(order)])>> \o ReadParts_abort(parts, Tail(order))

\* the for-loop over the globbed partitions: a partition whose read raises
\* is logged and left out, the others are appended in the order read
RECURSIVE ReadParts(_, _)
ReadParts(parts, order) ==
    IF order = <<>> THEN <<>>
    ELSE (IF parts[Head(order)].ok THEN <<read_csv(parts[Head(order)])>> ELSE <<>>)
         \o ReadParts(parts, Tail(order))

\* pd.concat(frames, ignore_index=True): rows in order, relabelled 0..n-1
pd_concat(frames) ==
    LET all == Flatten(frames)
    IN  [i \in DOMAIN all |-> [index |-> i - 1, row |-> all[i].row]]

\* mutant: line_num is left 0-based
AddLineNum_zero_based(df) ==
    [i \in DOMAIN df |-> [line_num |-> df[i].index, row |-> df[i].row]]

\* reset_index / rename / + 1: the label becomes the column line_num + 1
AddLineNum(df) == [i \in DOMAIN df |-> [line_num |-> df[i].index + 1, row |-> df[i].row]]

\* set_index('line_num').to_dict(orient='index'): the last row wins a key
ToDict(df) ==
    [k \in {df[i].line_num : i \in DOMAIN df} |->
        df[CHOOSE i \in DOMAIN df :
              /\ df[i].line_num = k
              /\ \A j \in DOMAIN df : df[j].line_num = k => j <= i].row]

BuildMoDict(data_mo_list) == ToDict(AddLineNum(pd_concat(data_mo_list)))

\* the three .apply() calls on the concatenated consumption table
NNRowRaises(r) ==
    \/ ParseLineNumbersRaises(r.matched_line_numbers)
    \/ ParseDistancesRaises(r.distances_km)
    \/ extract_min_consumption_raises(r.matrice)

NNRowParsed(r) ==
    [latitude |-> r.latitude,
     matrice |-> r.matrice,
     matched_line_numbers |-> ParseLineNumbers(r.matched_line_numbers),
     distances_km |-> ParseDistances(r.distances_km),
     min_conso |-> extract_min_consumption(r.matrice)]

BuildNearestRaises(nn_list) ==
    \E i \in DOMAIN pd_concat(nn_list) : NNRowRaises(pd_concat(nn_list)[i].row)

BuildNearest(nn_list) ==
    LET tmp_nn == pd_concat(nn_list)
    IN  [i \in DOMAIN tmp_nn |-> [index |-> tmp_nn[i].index, row |-> NNRowParsed(tmp_nn[i].row)]]

\* ---------------------------------------------------------- lookup tables
\* str(x).strip() of a text cell
Strip(x) ==
    CASE x = " 01001 " -> "01001"
      [] x = " SAS " -> "SAS"
      [] OTHER -> x

\* str(n) of an integer code
StrInt(n) ==
    CASE n = 5710 -> "5710"
      [] n = 5499 -> "5499"
      [] OTHER -> "9999"

\* {key: value} as a function, the last pair of a key winning
DictOf(pairs) ==
    [k \in {pairs[i].key : i \in DOMAIN pairs} |->
        pairs[CHOOSE i \in DOMAIN pairs :
                 /\ pairs[i].key = k
                 /\ \A j \in DOMAIN pairs : pairs[j].key = k => j <= i].value]

\* load_naf_dict: an unreadable file is logged and gives the empty dict
load_naf_dict(file) ==
    IF file.ok
    THEN DictOf([i \in DOMAIN file.rows |->
                    [key |-> Strip(file.rows[i].Code), value |-> Strip(file.rows[i].Libelle)]])
    ELSE <<>>

\* a cell of the density column: a number, NaN (empty cell) or a text
DensNum(n) == [k |-> "num", v |-> n]

DensNaN == [k |-> "nan", v |-> 0]

DensStr == [k |-> "str", v |-> 0]

\* "if row[0] and row[1]": 0 is falsy; NaN and a text are truthy
DensRowKept(row) == ~(row.dens.k = "num" /\ row.dens.v = 0)

\* int(row[1]) raises on NaN and on a text
DensRaises(rows) ==
    \E i \in DOMAIN rows : DensRowKept(rows[i]) /\ rows[i].dens.k # "num"

BuildDensDict(rows) ==
    LET kept == SelectSeq(rows, DensRowKept)
    IN  DictOf([i \in DOMAIN kept |-> [key |-> Strip(kept[i].code), value |-> kept[i].dens.v]])

BuildCodeToDescription(rows) ==
    DictOf([i \in DOMAIN rows |->
               [key |-> Strip(StrInt(rows[i].Code)), value |-> Strip(rows[i].Libelle)]])

\* the legal-form code of an ownership row: a text, or NaN for an empty cell
LegalNA == [na |-> TRUE, s |-> ""]

Legal(s) == [na |-> FALSE, s |-> s]

\* int(float(val)) succeeds
IsNumericText(t) == t \in {"5710", "5710.0", "5499", "9999"}

IntOfText(t) ==
    CASE t \in {"5710", "5710.0"} -> 5710
      [] t = "5499" -> 5499
      [] OTHER -> 9999

code_jurid_to_str(val, code_to_description) ==
    IF val.na THEN ""
    ELSE IF IsNumericText(val.s)
         THEN (IF Strip(StrInt(IntOfText(val.s))) \in DOMAIN code_to_description
               THEN code_to_description[Strip(StrInt(IntOfText(val.s)))]
               ELSE "Inconnu")
         ELSE "Inconnu"

Unset == [k |-> "unset", v |-> 0]

NoData == [status |-> "none", naf2_dict |-> <<>>, naf5_dict |-> <<>>, dens_dict |-> <<>>,
           code_to_description |-> <<>>, data_mo_dict |-> <<>>, nearest_df |-> <<>>,
           consommation_min_global |-> Unset]

FailedData == [NoData EXCEPT !.status = "failed"]

\* what load_data returns, given the order glob.glob listed the partitions
LoadResult(d, mo_parts, nn_parts) ==
    LET data_mo_list == ReadParts(d.mo, mo_parts)
        nn_list == ReadParts(d.nn, nn_parts)
        mo_dict == IF mo_parts # <<>> /\ data_mo_list # <<>>
                   THEN BuildMoDict(data_mo_list) ELSE <<>>
        lookups == [NoData EXCEPT !.status = "loaded",
                                  !.naf2_dict = load_naf_dict(d.naf2),
                                  !.naf5_dict = load_naf_dict(d.naf5),
                                  !.dens_dict = BuildDensDict(d.dens),
                                  !.code_to_description = BuildCodeToDescription(d.cat_jur),
                                  !.data_mo_dict = mo_dict]
    IN  IF DensRaises(d.dens) THEN FailedData
        ELSE IF nn_parts # <<>> /\ nn_list # <<>>
        THEN IF BuildNearestRaises(nn_list) THEN FailedData
             ELSE [lookups EXCEPT
                   !.nearest_df = BuildNearest(nn_list),
                   !.consommation_min_global =
                       PandasMin([i \in DOMAIN BuildNearest(nn_list) |->
                                     BuildNearest(nn_list)[i].row.min_conso])]
        ELSE lookups

\* ------------------------------------------------------ perimeter advice
\* mutant: class 5 falls through to 0
get_perimetre_from_dens_above5(dens_value) ==
    IF dens_value \in {3, 4} THEN 10
    ELSE IF dens_value > 5 THEN 20
    ELSE 0

get_perimetre_from_dens(dens_value) ==
    IF dens_value \in {3, 4} THEN 10
    ELSE IF dens_value >= 5 THEN 20
    ELSE 0

NoAdvice == [kind |-> "none", dens_value |-> 0, per |-> 0]

\* ----------------------------------------------------------------- query
Abs(x) == IF x < 0 THEN -x ELSE x

\* R * c, in millimetres, for two points of one meridian
haversine_distance(lat1, lat2) == EarthRadius * Abs(lat2 - lat1)

\* mutant: a point at exactly the radius is left out
query_radius_strict(df, lat, rayon_km) ==
    {i \in DOMAIN df : Abs(df[i].row.latitude - lat) * EarthRadius < rayon_km * 1000000}

\* BallTree.query_radius under the haversine metric: the angle between the
\* points is at most rayon_km / 6371.0 radians.  Positions in the frame.
query_radius(df, lat, rayon_km) ==
    {i \in DOMAIN df : Abs(df[i].row.latitude - lat) * EarthRadius <= rayon_km * 1000000}

\* mutant: the comparison is > instead of >=
ThresholdFilter_strict(subset, conso_min) ==
    SelectSeq(subset, LAMBDA r : FloatLT(Num(conso_min), r.row.min_conso))

\* subset[subset["min_conso"] >= conso_min]
ThresholdFilter(subset, conso_min) ==
    SelectSeq(subset, LAMBDA r : FloatGE(r.row.min_conso, Num(conso_min)))

\* mutant: the first identifier missing from the store ends the loop
RECURSIVE get_entreprises_stop(_, _)
get_entreprises_stop(matched_line_numbers, data_mo_dict) ==
    IF matched_line_numbers = <<>> \/ Head(matched_line_numbers) \notin DOMAIN data_mo_dict
    THEN <<>>
    ELSE <<data_mo_dict[Head(matched_line_numbers)]>>
         \o get_entreprises_stop(Tail(matched_line_numbers), data_mo_dict)

RECURSIVE get_entreprises(_, _)
get_entreprises(matched_line_numbers, data_mo_dict) ==
    IF matched_line_numbers = <<>> THEN <<>>
    ELSE (IF Head(matched_line_numbers) \in DOMAIN data_mo_dict
          THEN <<data_mo_dict[Head(matched_line_numbers)]>> ELSE <<>>)
         \o get_entreprises(Tail(matched_line_numbers), data_mo_dict)

MinOf(a, b) == IF a <= b THEN a ELSE b

\* the rows of the popup's second table: zip(entreprises, matched_distances)
PopupEntreprises(entreprises, matched_distances) ==
    [i \in 1..MinOf(Len(entreprises), Len(matched_distances)) |->
        [ent |-> entreprises[i], dist |-> matched_distances[i]]]

\* the "Forme Juridique" column of that table
PopupFormesJur(entreprises, matched_distances, code_to_description) ==
    [i \in 1..MinOf(Len(entreprises), Len(matched_distances)) |->
        code_jurid_to_str(entreprises[i].code_forme_juridique_proprietaire,
                          code_to_description)]

create_popup(matrice_entries, entreprises, matched_distances, distance_from_start, code_to_description) ==
    [matrice_entries |-> matrice_entries,
     entreprises |-> PopupEntreprises(entreprises, matched_distances),
     forme_jur |-> PopupFormesJur(entreprises, matched_distances, code_to_description),
     distance_from_start |-> distance_from_start]

\* one pass of the loop over subset.iterrows(); idx and ent are the loop's
\* locals, kept beside the four keys of the emitted dict
MarkerOf(r, lat, data_mo_dict, code_to_description) ==
    LET ent == get_entreprises(r.row.matched_line_numbers, data_mo_dict)
    IN  [idx |-> r.index,
         ent |-> ent,
         lat |-> r.row.latitude,
         popup |-> create_popup(parse_matrice(r.row.matrice), ent, r.row.distances_km,
                                haversine_distance(lat, r.row.latitude), code_to_description),
         conso |-> r.row.min_conso]

\* mutant: the empty table is not told apart
IsEmptyDF_never(df) == FALSE

IsEmptyDF(df) == Len(df) = 0

NoResult == [kind |-> "none", lat |-> 0, rayon_km |-> 0, conso_min |-> 0,
             perimetre_txt |-> "", markers_data |-> <<>>]

\* reverse_geocode_citycode: the commune that holds the start point, "" where
\* the service names none
reverse_geocode_citycode(lat) == IF lat = 0 THEN "75056" ELSE ""

\* the line of the start marker that suggests a perimeter for the commune
PerimetreTxt(dens_dict, citycode) ==
    IF citycode \notin DOMAIN dens_dict THEN ""
    ELSE CASE get_perimetre_from_dens(dens_dict[citycode]) = 0 -> "Commune urbaine => 0 km"
           [] get_perimetre_from_dens(dens_dict[citycode]) = 10 -> "Commune periurbaine => 10 km"
           [] get_perimetre_from_dens(dens_dict[citycode]) = 20 -> "Commune rurale => 20 km"
           [] OTHER -> "Dens => ???"

\* mutant: the radian columns are added to the snapshot's own table
CopyFrame_alias(df) == [alias |-> TRUE, rows |-> df]

\* df = nearest_df.copy()
CopyFrame(df) == [alias |-> FALSE, rows |-> df]

\* df['lat_rad'] = np.radians(df['latitude']); latitudes are kept in
\* micro-radians, so the new column repeats the value
WithRadians(df) ==
    [i \in DOMAIN df |->
        [index |-> df[i].index, row |-> df[i].row @@ [lat_rad |-> df[i].row.latitude]]]

\* the snapshot as create_map_html leaves it
SnapshotAfter(d) ==
    IF IsEmptyDF(d.nearest_df) THEN d
    ELSE IF CopyFrame(d.nearest_df).alias
         THEN [d EXCEPT !.nearest_df = WithRadians(CopyFrame(d.nearest_df).rows)]
         ELSE d

\* create_map_html: None for an empty table, else the map and its markers.
\* idx_within is the array query_radius returned (its order is the tree's).
create_map_html(lat, rayon_km, conso_min, d, idx_within) ==
    IF IsEmptyDF(d.nearest_df)
    THEN [NoResult EXCEPT !.kind = "nodata", !.lat = lat, !.rayon_km = rayon_km,
                          !.conso_min = conso_min]
    ELSE LET subset == ThresholdFilter(
                           [j \in DOMAIN idx_within |-> d.nearest_df[idx_within[j]]],
                           conso_min)
         IN  [kind |-> "map", lat |-> lat, rayon_km |-> rayon_km, conso_min |-> conso_min,
              perimetre_txt |-> PerimetreTxt(d.dens_dict, reverse_geocode_citycode(lat)),
              markers_data |->
                  [j \in DOMAIN subset |->
                      MarkerOf(subset[j], lat, d.data_mo_dict, d.code_to_description)]]

\* ---------------------------------------------------------------- inputs
\* every sequence that lists the elements of S once
Orders(S) ==
    {f \in [1..Cardinality(S) -> S] : \A i, j \in DOMAIN f : f[i] = f[j] => i = j}

SeqsUpTo(S, n) == UNION {[1..m -> S] : m \in 0..n}

Latitudes == {0, 1600}

QueryLatitudes == {0, 700}

Radii == {0, 5, 10}

Thresholds == {0, 50, 100}

\* cells from which extract_min_consumption returns
MatriceCells ==
    {MatNA, MatInvalid, MatScalar, MatList(<<>>),
     MatDict(Obj(ConsoNum(60))),
     MatList(<<Obj(ConsoNum(120)), Obj(ConsoNum(30))>>),
     MatList(<<Obj(ConsoNum(-5))>>),
     MatList(<<Obj(ConsoAbsent), Obj(ConsoNum(80))>>),
     MatList(<<Obj(ConsoNaN)>>)}

\* cells on which it raises
BadMatriceCells == {MatList(<<NonObj>>), MatList(<<Obj(ConsoStr)>>)}

\* <<matched_line_numbers, distances_km>> as the two cells of one row
LinkCells ==
    {<<CellNA, CellNA>>,
     <<Cell(<<"1">>), Cell(<<"0.5">>)>>,
     <<Cell(<<"1", "2">>), Cell(<<"0.5", "1.2">>)>>,
     <<Cell(<<"3", "1">>), Cell(<<"0.5", "1.2">>)>>,
     <<Cell(<<"3", "1", "2">>), Cell(<<"0.5", "1.2", "2.0">>)>>,
     <<Cell(<<"1", "2">>), Cell(<<"0.5">>)>>,
     <<Cell(<<"1">>), CellNA>>,
     <<Cell(<<"x">>), Cell(<<"0.5">>)>>,
     <<Cell(<<"1", "">>), Cell(<<"0.5", "1.2">>)>>,
     <<Cell(<<"1">>), Cell(<<"x">>)>>}

NNRow(lat, m, links) ==
    [latitude |-> lat, matrice |-> m,
     matched_line_numbers |-> links[1], distances_km |-> links[2]]

NNRows ==
    {NNRow(lat, m, <<Cell(<<"1">>), Cell(<<"0.5">>)>>) : lat \in Latitudes, m \in MatriceCells}
    \cup {NNRow(0, m, <<Cell(<<"1">>), Cell(<<"0.5">>)>>) : m \in BadMatriceCells}
    \cup {NNRow(0, MatDict(Obj(ConsoNum(60))), l) : l \in LinkCells}

\* rows that fill a table around the row that varies
CompanionRows ==
    {NNRow(lat, m, <<Cell(<<"1">>), Cell(<<"0.5">>)>>) :
        lat \in {0, 1600}, m \in {MatNA, MatDict(Obj(ConsoNum(60)))}}

\* tables of 1..MaxRows rows, at most one of them not a companion row
NNTables ==
    {t \in SeqsUpTo(NNRows, MaxRows) \ {<<>>} :
        \A i, j \in DOMAIN t : (t[i] \notin CompanionRows /\ t[j] \notin CompanionRows) => i = j}

\* the legal-form cell of the ownership row of each owner
CodeFormeJuridique(s) ==
    CASE s = 1 -> Legal("abc")
      [] s = 2 -> Legal("9999")
      [] s = 11 -> Legal("5710.0")
      [] s = 12 -> LegalNA
      [] s = 21 -> Legal("5499")
      [] OTHER -> Legal("5710")

MoRow(s) == [siren_proprietaire |-> s,
             code_forme_juridique_proprietaire |-> CodeFormeJuridique(s)]

\* categories-juridiques-insee.csv
CatJurRows == <<[Code |-> 5710, Libelle |-> " SAS "], [Code |-> 5499, Libelle |-> "SARL"]>>

\* the NAF files
NafFile(ok) == [ok |-> ok, rows |-> <<[Code |-> "35", Libelle |-> "Energie"]>>]

DensRow(code, dens) == [code |-> code, dens |-> dens]

\* dens.xlsx when another file is the one that varies
DefaultDens == <<DensRow("75056", DensNum(3))>>

Dir(mo, nn, dens, naf_ok) ==
    [mo |-> mo, nn |-> nn, dens |-> dens, cat_jur |-> CatJurRows,
     naf2 |-> NafFile(naf_ok), naf5 |-> NafFile(TRUE)]

Files == 1..MaxParts

Part(ok, rows) == [ok |-> ok, rows |-> rows]

\* directories that vary the consumption rows: one readable partition each
ContentDirs ==
    {Dir((1 :> Part(TRUE, <<MoRow(1), MoRow(2)>>)), (1 :> Part(TRUE, t)),
         DefaultDens, TRUE) : t \in NNTables}

\* the rows of data_mo_part<i>.csv: two rows in odd files, one in even files
MoPartRows(i) ==
    IF i % 2 = 1 THEN <<MoRow(10 * i + 1), MoRow(10 * i + 2)>> ELSE <<MoRow(10 * i + 1)>>

\* the row of nearest_neighbors_part<i>.csv
NNPartRows(i) ==
    IF i % 2 = 1
    THEN <<NNRow(0, MatDict(Obj(ConsoNum(60))),
                 <<Cell(<<"3", "1", "2">>), Cell(<<"0.5", "1.2", "2.0">>)>>)>>
    ELSE <<NNRow(1600, MatNA, <<CellNA, CellNA>>)>>

\* every choice of which partition files exist and which of them are readable
PartDirs(rows_of) ==
    UNION {{[i \in F |-> Part(i \in G, rows_of[i])] : G \in SUBSET F} : F \in SUBSET Files}

\* directories that vary the partitions of one table, the other table whole
PartitionDirs ==
    {Dir(m, (1 :> Part(TRUE, NNPartRows(1))), DefaultDens, TRUE) :
        m \in PartDirs([i \in Files |-> MoPartRows(i)])}
    \cup {Dir((1 :> Part(TRUE, MoPartRows(1))), n, DefaultDens, TRUE) :
              n \in PartDirs([i \in Files |-> NNPartRows(i)])}

\* density cells of the row that varies
DensCells == {DensNaN, DensStr, DensNum(0), DensNum(-1), DensNum(1), DensNum(4), DensNum(5), DensNum(7)}

\* dens.xlsx: the row that varies, alone or beside a well-formed row
DensTables ==
    {<<DensRow("75056", c)>> : c \in DensCells}
    \cup {<<DensRow("75056", c), DensRow(" 01001 ", DensNum(2))>> : c \in DensCells}
    \cup {<<DensRow(" 01001 ", DensNum(2)), DensRow("75056", c)>> : c \in DensCells}

\* directories that vary the lookup files, the two tables whole
LookupDirs ==
    {Dir((1 :> Part(TRUE, MoPartRows(1))), (1 :> Part(TRUE, NNPartRows(1))), t, ok) :
        t \in DensTables, ok \in BOOLEAN}

\* ---------------------------------------------------------- state machine
VARIABLES dir, globbed, data, out, advice

vars == <<dir, globbed, data, out, advice>>

Init ==
    /\ dir \in ContentDirs \cup PartitionDirs \cup LookupDirs
    /\ globbed = [mo |-> <<>>, nn |-> <<>>]
    /\ data = NoData
    /\ out = NoResult
    /\ advice = NoAdvice

\* load_data(data_dir); glob.glob lists each table's partitions in an order
\* of the file system's choosing
load_data ==
    \E mo_parts \in Orders(DOMAIN dir.mo), nn_parts \in Orders(DOMAIN dir.nn) :
        /\ globbed' = [mo |-> mo_parts, nn |-> nn_parts]
        /\ data' = LoadResult(dir, mo_parts, nn_parts)
        /\ out' = NoResult
        /\ UNCHANGED <<dir, advice>>

\* generate_map -> create_map_html on the snapshot load_data returned
run_query ==
    /\ data.status = "loaded"
    /\ \E lat \in QueryLatitudes, rayon_km \in Radii, conso_min \in Thresholds :
       \E idx_within \in Orders(query_radius(data.nearest_df, lat, rayon_km)) :
            out' = create_map_html(lat, rayon_km, conso_min, data, idx_within)
    /\ data' = SnapshotAfter(data)
    /\ UNCHANGED <<dir, globbed, advice>>

Next == load_data \/ run_query

Spec == Init /\ [][Next]_vars

\* -------------------------------------------- the advisor called directly
DensClasses == (-MaxDens..MaxDens) \cup {99}

InitAdvisor ==
    /\ dir = Dir((1 :> Part(TRUE, MoPartRows(1))), (1 :> Part(TRUE, NNPartRows(1))),
                 DefaultDens, TRUE)
    /\ globbed = [mo |-> <<>>, nn |-> <<>>]
    /\ data = NoData
    /\ out = NoResult
    /\ advice = NoAdvice

\* get_perimetre_from_dens(dens_value) on any integer
suggest_perimeter ==
    /\ \E dens_value \in DensClasses :
          advice' = [kind |-> "perimetre", dens_value |-> dens_value,
                     per |-> get_perimetre_from_dens(dens_value)]
    /\ UNCHANGED <<dir, globbed, data, out>>

NextAdvisor == suggest_perimeter

SpecAdvisor == InitAdvisor /\ [][NextAdvisor]_vars

\* ================================================================ claims
Loaded == data.status = "loaded"

IsMap == out.kind = "map"

\* positions of the snapshot's consumption table
Rows == DOMAIN data.nearest_df

RowAt(i) == data.nearest_df[i].row

LabelAt(i) == data.nearest_df[i].index

\* the great-circle distance of row i from the query's origin is <= radius_km
WithinRadius(i) == haversine_distance(out.lat, RowAt(i).latitude) <= out.rayon_km * 1000000

MeetsThreshold(i) == FloatGE(RowAt(i).min_conso, Num(out.conso_min))

Markers == out.markers_data

EmittedLabels == {Markers[j].idx : j \in DOMAIN Markers}

\* the position of the record a marker was made from
RowOfMarker(m) == CHOOSE i \in Rows : LabelAt(i) = m.idx

\* C1: the markers of a query are exactly the records within radius_km of the
\* origin whose min_conso is >= the threshold, each of them once, and each
\* marker carries its record's coordinates and min_conso.
C1_ExactFilter ==
    IsMap =>
        /\ EmittedLabels = {LabelAt(i) : i \in {r \in Rows : WithinRadius(r) /\ MeetsThreshold(r)}}
        /\ \A j, k \in DOMAIN Markers : Markers[j].idx = Markers[k].idx => j = k
        /\ \A j \in DOMAIN Markers :
              /\ Markers[j].lat = RowAt(RowOfMarker(Markers[j])).latitude
              /\ Markers[j].conso = RowAt(RowOfMarker(Markers[j])).min_conso

\* a query that keeps one record and drops another that lies within the
\* radius but below the threshold
C1_Witness ==
    /\ IsMap
    /\ Len(Markers) = 1
    /\ \E i \in Rows : WithinRadius(i) /\ ~MeetsThreshold(i)

\* the matrix of a raw cell is empty: missing, not JSON, JSON of another
\* type, or the empty array
EmptyMatrix(m) == m.kind \in {"na", "invalid", "scalar"} \/ (m.kind = "list" /\ m.items = <<>>)

\* C2: a record with an empty consumption matrix has min_conso = +inf, never
\* 0, and every query whose radius covers it emits it, whatever the threshold.
C2_EmptyMatrixIsInf ==
    /\ Loaded =>
          \A i \in Rows : EmptyMatrix(RowAt(i).matrice) =>
              RowAt(i).min_conso = Inf /\ RowAt(i).min_conso # Num(0)
    /\ IsMap =>
          \A i \in Rows : (EmptyMatrix(RowAt(i).matrice) /\ WithinRadius(i)) =>
              LabelAt(i) \in EmittedLabels

\* a record with an empty matrix emitted under a positive threshold
C2_Witness ==
    /\ IsMap
    /\ out.conso_min > 0
    /\ \E j \in DOMAIN Markers :
          EmptyMatrix(RowAt(RowOfMarker(Markers[j])).matrice) /\ Markers[j].conso = Inf

\* C3 as stated: with threshold 0 the markers are exactly the records within
\* the radius, whatever their CONSO values.
C3_ThresholdZeroReturnsAll ==
    (IsMap /\ out.conso_min = 0) =>
        EmittedLabels = {LabelAt(i) : i \in {r \in Rows : WithinRadius(r)}}

\* every CONSO of the record's matrix is absent or a number >= 0
NoNegativeConso(m) ==
    \A e \in DOMAIN parse_matrice(m) :
        LET c == parse_matrice(m)[e].conso
        IN  c.k = "absent" \/ (c.k = "num" /\ c.v >= 0)

\* C3 amended: with threshold 0 the markers are records within the radius,
\* and they include every such record whose matrix is empty or holds only
\* CONSO values that are absent or >= 0.
C3_ThresholdZeroReturnsNonNegative ==
    (IsMap /\ out.conso_min = 0) =>
        /\ EmittedLabels \subseteq {LabelAt(i) : i \in {r \in Rows : WithinRadius(r)}}
        /\ \A i \in Rows : (WithinRadius(i) /\ NoNegativeConso(RowAt(i).matrice)) =>
              LabelAt(i) \in EmittedLabels

\* threshold 0 emits a record whose minimum CONSO is exactly 0
C3_Witness ==
    /\ IsMap
    /\ out.conso_min = 0
    /\ \E j \in DOMAIN Markers : Markers[j].conso = Num(0)

\* C4: after ingestion every record has as many matched_line_numbers as
\* distances_km.
C4_EqualLengths ==
    Loaded =>
        \A i \in Rows : Len(RowAt(i).matched_line_numbers) = Len(RowAt(i).distances_km)

\* the ownership rows a record should show: for each identifier found in the
\* store, in order, the store's record and the distance at the same index
RECURSIVE AlignedFrom(_, _, _, _)
AlignedFrom(i, lns, dists, store) ==
    IF i > Len(lns) THEN <<>>
    ELSE (IF lns[i] \in DOMAIN store THEN <<[ent |-> store[lns[i]], dist |-> dists[i]]>> ELSE <<>>)
         \o AlignedFrom(i + 1, lns, dists, store)

\* C5: each ownership row of a marker carries distances_km[i], i the index of
\* its identifier in matched_line_numbers, also after skipped identifiers
\* (stated for the records whose two sequences have equal length).
C5_DistancesIndexAligned ==
    IsMap =>
        \A j \in DOMAIN Markers :
            LET r == RowAt(RowOfMarker(Markers[j]))
            IN  Len(r.matched_line_numbers) = Len(r.distances_km) =>
                    Markers[j].popup.entreprises =
                        AlignedFrom(1, r.matched_line_numbers, r.distances_km, data.data_mo_dict)

\* the identifiers of a record that the store holds, in order
Resolvable(lns) == SelectSeq(lns, LAMBDA ln : ln \in DOMAIN data.data_mo_dict)

HasAbsentId(i) ==
    \E n \in DOMAIN RowAt(i).matched_line_numbers :
        RowAt(i).matched_line_numbers[n] \notin DOMAIN data.data_mo_dict

\* C6: a record that names an identifier absent from the store is still
\* emitted when it passes the filters, and its ownership list is the store's
\* records of its other identifiers, in the order of matched_line_numbers.
C6_AbsentIdSkipped ==
    IsMap =>
        /\ \A i \in Rows : (HasAbsentId(i) /\ WithinRadius(i) /\ MeetsThreshold(i)) =>
              LabelAt(i) \in EmittedLabels
        /\ \A j \in DOMAIN Markers :
              LET lns == RowAt(RowOfMarker(Markers[j])).matched_line_numbers
              IN  Markers[j].ent =
                      [n \in DOMAIN Resolvable(lns) |-> data.data_mo_dict[Resolvable(lns)[n]]]

\* a marker whose record names an absent identifier before two present ones
C6_Witness ==
    /\ IsMap
    /\ \E j \in DOMAIN Markers :
          /\ HasAbsentId(RowOfMarker(Markers[j]))
          /\ Head(RowAt(RowOfMarker(Markers[j])).matched_line_numbers) \notin DOMAIN data.data_mo_dict
          /\ Len(Markers[j].ent) = 2

\* C7: without any consumption partition file ingestion returns an empty
\* table; a query on an empty table ends in the no-data outcome (None), a
\* query on a non-empty table ends in a map, also when no record matches.
C7_NoDataIsDistinct ==
    /\ (DOMAIN dir.nn = {} /\ data.status # "none") => (Loaded /\ data.nearest_df = <<>>)
    /\ (out.kind # "none" /\ data.nearest_df = <<>>) => out.kind = "nodata"
    /\ (out.kind # "none" /\ data.nearest_df # <<>>) => out.kind = "map"

\* a query answered with no-data on a directory without consumption partitions
C7_Witness == DOMAIN dir.nn = {} /\ Loaded /\ out.kind = "nodata"

\* the rows of the readable partitions, in the order the partitions were read
ReadableRows(parts, order) ==
    LET readable == SelectSeq(order, LAMBDA f : parts[f].ok)
    IN  Flatten([j \in DOMAIN readable |-> parts[readable[j]].rows])

AllUnreadable(parts) == \A f \in DOMAIN parts : ~parts[f].ok

\* C8: each table holds exactly the rows of its partitions that were read
\* successfully; unreadable partitions never fail ingestion, and when all of
\* a table's partitions are unreadable the table is empty.
C8_UnreadablePartitionsSkipped ==
    /\ data.status = "failed" =>
          \/ DensRaises(dir.dens)
          \/ \E f \in DOMAIN dir.nn : dir.nn[f].ok /\ \E i \in DOMAIN dir.nn[f].rows :
                 NNRowRaises(dir.nn[f].rows[i])
    /\ Loaded =>
          LET nn == ReadableRows(dir.nn, globbed.nn)
              mo == ReadableRows(dir.mo, globbed.mo)
          IN  /\ Len(data.nearest_df) = Len(nn)
              /\ \A i \in DOMAIN nn :
                    /\ RowAt(i).latitude = nn[i].latitude
                    /\ RowAt(i).matrice = nn[i].matrice
              /\ Cardinality(DOMAIN data.data_mo_dict) = Len(mo)
              /\ {data.data_mo_dict[k] : k \in DOMAIN data.data_mo_dict} = {mo[i] : i \in DOMAIN mo}
    /\ (data.status # "none" /\ AllUnreadable(dir.nn)) => (Loaded /\ data.nearest_df = <<>>)
    /\ (Loaded /\ AllUnreadable(dir.mo)) => data.data_mo_dict = <<>>

\* a snapshot loaded past an unreadable consumption partition that was read
\* before a readable one
C8_Witness ==
    /\ Loaded
    /\ Len(globbed.nn) >= 2
    /\ ~dir.nn[globbed.nn[1]].ok
    /\ dir.nn[globbed.nn[2]].ok
    /\ Len(data.nearest_df) >= 1

\* C9: the store's keys are 1..N, N the number of rows of the readable
\* ownership partitions, and key k holds the k-th row of their concatenation
\* in the order read.
C9_SequentialKeys ==
    Loaded =>
        LET mo == ReadableRows(dir.mo, globbed.mo)
        IN  /\ DOMAIN data.data_mo_dict = 1..Len(mo)
            /\ \A k \in 1..Len(mo) : data.data_mo_dict[k] = mo[k]

\* a store built from two readable partitions
C9_Witness ==
    /\ Loaded
    /\ Cardinality({f \in DOMAIN dir.mo : dir.mo[f].ok}) >= 2
    /\ Cardinality(DOMAIN data.data_mo_dict) >= 3

\* C10: ingesting the same directory again gives every ownership record the
\* line identifier it had before.
C10_SameIdsOnReingest ==
    [][(data.status = "loaded" /\ data'.status = "loaded")
          => data'.data_mo_dict = data.data_mo_dict]_vars

\* the raw rows behind the snapshot's consumption table, position by position
RawRows == ReadableRows(dir.nn, globbed.nn)

\* a token that is no number: a word, or the empty piece a trailing ';' leaves
MalformedTok(t) == t \in {"x", ""}

MalformedCell(x) == ~x.na /\ \E i \in DOMAIN x.toks : MalformedTok(x.toks[i])

\* every element of the cell's array is an object whose CONSO is a number
\* or absent
WellFormedEntries(m) ==
    \A i \in DOMAIN m.items : m.items[i].obj /\ m.items[i].conso.k # "str"

NoMalformedCell ==
    \A f \in DOMAIN dir.nn : dir.nn[f].ok =>
        \A i \in DOMAIN dir.nn[f].rows :
            /\ ~MalformedCell(dir.nn[f].rows[i].matched_line_numbers)
            /\ ~MalformedCell(dir.nn[f].rows[i].distances_km)

NoIllFormedMatrice ==
    \A f \in DOMAIN dir.nn : dir.nn[f].ok =>
        \A i \in DOMAIN dir.nn[f].rows : WellFormedEntries(dir.nn[f].rows[i].matrice)

\* C11: a matched_line_numbers or distances_km cell that is empty or
\* malformed parses to the empty sequence and load_data still returns a
\* snapshot holding the record (stated for tables whose matrice cells are
\* well formed and whose density file loads).
C11_MalformedCellParsesEmpty ==
    (data.status # "none" /\ NoIllFormedMatrice /\ ~DensRaises(dir.dens)) =>
        /\ Loaded
        /\ Len(data.nearest_df) = Len(RawRows)
        /\ \A i \in Rows :
              /\ (RawRows[i].matched_line_numbers.na \/ MalformedCell(RawRows[i].matched_line_numbers))
                    => RowAt(i).matched_line_numbers = <<>>
              /\ (RawRows[i].distances_km.na \/ MalformedCell(RawRows[i].distances_km))
                    => RowAt(i).distances_km = <<>>

\* C12: a JSON object decodes to one entry, a JSON array to its elements in
\* order, anything else (array of non-objects or of non-numeric CONSO
\* included) to no entry, and load_data returns with min_conso defined
\* (stated for tables whose link cells are well formed and whose density
\* file loads).
C12_MatriceDegradesToEmpty ==
    (data.status # "none" /\ NoMalformedCell /\ ~DensRaises(dir.dens)) =>
        /\ Loaded
        /\ Len(data.nearest_df) = Len(RawRows)
        /\ \A i \in Rows :
              LET m == RawRows[i].matrice
              IN  /\ RowAt(i).min_conso.k \in {"num", "inf", "nan"}
                  /\ parse_matrice(RowAt(i).matrice) =
                        (IF m.kind = "dict" /\ WellFormedEntries(m) THEN <<m.items[1]>>
                         ELSE IF m.kind = "list" /\ WellFormedEntries(m) THEN m.items
                         ELSE <<>>)

\* C13: get_perimetre_from_dens answers every integer: 10 for 3 and 4, 20
\* for every class >= 5, 0 for every class <= 2, and nothing else.
C13_PerimeterMapping ==
    advice.kind = "perimetre" =>
        /\ advice.per \in {0, 10, 20}
        /\ advice.dens_value \in {3, 4} => advice.per = 10
        /\ advice.dens_value >= 5 => advice.per = 20
        /\ advice.dens_value <= 2 => advice.per = 0

\* the advisor asked about a negative class
C13_Witness == advice.kind = "perimetre" /\ advice.dens_value < 0 /\ advice.per = 0

\* C14: once a query has been answered, with a map or with no-data, the
\* snapshot (consumption table, ownership store, lookup tables, density
\* table) is still what load_data returned: the radian columns went to a copy.
C14_SnapshotUnchanged ==
    out.kind # "none" => data = LoadResult(dir, globbed.mo, globbed.nn)

\* a query that emitted a marker and left the table without radian columns
C14_Witness ==
    /\ IsMap
    /\ Len(Markers) >= 1
    /\ \A i \in Rows : "lat_rad" \notin DOMAIN RowAt(i)

\* C15: a row of a lookup file or of the density file that cannot be parsed
\* is skipped, every other row is loaded, and ingestion does not fail
\* (stated for directories whose consumption rows are well formed).
C15_UnparseableLookupRowSkipped ==
    (data.status # "none" /\ NoMalformedCell /\ NoIllFormedMatrice) =>
        /\ Loaded
        /\ \A i \in DOMAIN dir.dens :
              IF dir.dens[i].dens.k = "num"
              THEN dir.dens[i].dens.v # 0 =>
                      /\ Strip(dir.dens[i].code) \in DOMAIN data.dens_dict
                      /\ data.dens_dict[Strip(dir.dens[i].code)] = dir.dens[i].dens.v
              ELSE Strip(dir.dens[i].code) \notin DOMAIN data.dens_dict
        /\ DOMAIN data.code_to_description = {"5710", "5499"}
        /\ data.code_to_description["5710"] = "SAS"
        /\ dir.naf2.ok => data.naf2_dict = [c \in {"35"} |-> "Energie"]
        /\ ~dir.naf2.ok => DOMAIN data.naf2_dict = {}

\* C16: every ownership row of a popup shows the table's label when its code
\* is numeric and its integer string is a key of the table, and "Inconnu"
\* when the code is numeric and unknown, not numeric, or missing.
C16_LegalFormLabel ==
    IsMap =>
        \A j \in DOMAIN Markers :
            \A i \in DOMAIN Markers[j].popup.forme_jur :
                LET val == Markers[j].ent[i].code_forme_juridique_proprietaire
                    known == /\ ~val.na
                             /\ IsNumericText(val.s)
                             /\ StrInt(IntOfText(val.s)) \in DOMAIN data.code_to_description
                IN  Markers[j].popup.forme_jur[i] =
                        (IF known THEN data.code_to_description[StrInt(IntOfText(val.s))]
                         ELSE "Inconnu")

\* the CONSO of an entry, an absent field counting as 0
EntryValue(entry) == IF entry.conso.k = "absent" THEN 0 ELSE entry.conso.v

\* the matrix has entries, each an object whose CONSO is a number or absent
NumericMatrix(es) ==
    es # <<>> /\ \A e \in DOMAIN es : es[e].obj /\ es[e].conso.k \in {"num", "absent"}

\* C17: for a record whose matrix has entries with numeric or absent CONSO,
\* min_conso is the least entry value with an absent CONSO counted as 0; a
\* record with such an entry and no negative value has min_conso 0 and is
\* emitted under no positive threshold; consommation_min_global is the least
\* min_conso of the table.
C17_MinConsumption ==
    Loaded =>
        /\ \A i \in Rows :
              LET es == parse_matrice(RowAt(i).matrice)
                  m == RowAt(i).min_conso
              IN  NumericMatrix(es) =>
                    /\ m.k = "num"
                    /\ \E e \in DOMAIN es : EntryValue(es[e]) = m.v
                    /\ \A e \in DOMAIN es : m.v <= EntryValue(es[e])
                    /\ ((\E e \in DOMAIN es : es[e].conso.k = "absent")
                        /\ (\A e \in DOMAIN es : EntryValue(es[e]) >= 0))
                          => /\ m = Num(0)
                             /\ (IsMap /\ out.conso_min > 0) => LabelAt(i) \notin EmittedLabels
        /\ LET ms == {RowAt(i).min_conso : i \in {r \in Rows : RowAt(r).min_conso.k # "nan"}}
           IN  ms # {} =>
                  /\ data.consommation_min_global \in ms
                  /\ \A m \in ms : ~FloatLT(m, data.consommation_min_global)

\* a positive threshold leaves out a record within the radius whose matrix
\* has an entry without CONSO beside a positive one
C17_Witness ==
    /\ IsMap
    /\ out.conso_min > 0
    /\ \E i \in Rows :
          /\ WithinRadius(i)
          /\ LabelAt(i) \notin EmittedLabels
          /\ RowAt(i).min_conso = Num(0)
          /\ \E e, f \in DOMAIN parse_matrice(RowAt(i).matrice) :
                /\ parse_matrice(RowAt(i).matrice)[e].conso.k = "absent"
                /\ parse_matrice(RowAt(i).matrice)[f].conso = ConsoNum(80)

====
